---- MODULE Spec2Model ----
(***************************************************************************)
(* Model of tom_dataproducts/views.py: the upload, delete, feature and     *)
(* share views of DataProducts, over the DataProduct and ReducedDatum      *)
(* tables, the media storage, the guardian permission table and the        *)
(* outbound HTTP calls.                                                    *)
(***************************************************************************)
EXTENDS Integers, Sequences, FiniteSets, TLC

\* ---------------------------------------------------------------- bounds
MaxFiles == 2        \* files of one upload request
MaxData == 1         \* ReducedDatum rows the data processor creates per file
NumProducts == 2     \* DataProduct rows of the delete and feature views' database
NumRequests == 2     \* concurrent DataProductFeatureView requests
MaxRows == 2         \* rows of a photometry CSV file
MaxCount == 2        \* the largest count the destination TOM reports

\* ------------------------------------------------------------- universes
Targets == {"t1", "t2"}
Types == {"photometry", "image"}
Groups == {"g1"}
PermNames == <<"view_dataproduct", "delete_dataproduct", "view_reduceddatum">>

VARIABLES
    TARGET_PERMISSIONS_ONLY, \* settings.TARGET_PERMISSIONS_ONLY
    DataProduct,             \* table: pk -> [target, data_product_type, featured]
    ReducedDatum,            \* table: set of [data_product, n]
    media,                   \* pks whose uploaded file is in the media storage
    perms,                   \* guardian object permissions: <<group, perm, pk>>
    nextPk,                  \* the table's next primary key
    \* DataProductUploadView.form_valid
    upPc, form, idx, dp, exc, successful_uploads, messages, upResponse,
    attempts,                \* history: the files dp.save() ran for, with their pks
    raised,                  \* history: the pks whose try block raised
    \* DataProductDeleteView
    delPc, delReq, delResponse,
    \* DataProductFeatureView.get, one entry per request
    featPc, featPk, current_featured, overlapped, cache,
    \* DataProductShareView
    DATA_SHARING, sharePc, shareCall, data, submit_response, target_response,
    http, warnings, shareResult

dbVars == <<TARGET_PERMISSIONS_ONLY, DataProduct, ReducedDatum, media, perms, nextPk>>
upVars == <<upPc, form, idx, dp, exc, successful_uploads, messages, upResponse,
            attempts, raised>>
delVars == <<delPc, delReq, delResponse>>
featVars == <<featPc, featPk, current_featured, overlapped, cache>>
shareVars == <<DATA_SHARING, sharePc, shareCall, data, submit_response,
               target_response, http, warnings, shareResult>>
vars == <<dbVars, upVars, delVars, featVars, shareVars>>

\* ------------------------------------------------------------ ORM helpers
Pks == DOMAIN DataProduct

\* DataProduct(...).save(): a new row under the next primary key
Insert(table, pk, row) == [p \in (DOMAIN table) \cup {pk} |-> IF p = pk THEN row ELSE table[p]]

\* dp.delete(): the row is gone
DeleteRow(table, pk) == [p \in (DOMAIN table) \ {pk} |-> table[p]]

\* ReducedDatum.objects.filter(data_product=dp)
ReducedOf(pk) == {rd \in ReducedDatum : rd.data_product = pk}

\* the first j of the three assign_perm calls of one group
Assigned(group, pk, j) == {<<group, PermNames[i], pk>> : i \in 1..j}

NoForm == [n |-> 0, target |-> "t1", data_product_type |-> "image", groups |-> {}]

\* --------------------------------------------------------------- Init
\* a row as DataProduct(...).save() stores it: featured defaults to False
NewRow(t, ty) == [target |-> t, data_product_type |-> ty, featured |-> FALSE]

\* the rows ReducedDatum holds when product pk has k of them
Reduced(pk, k) == {[data_product |-> pk, n |-> j] : j \in 1..k}

\* the database before any upload, or after one earlier upload with one datum
InitDbUpload ==
    /\ TARGET_PERMISSIONS_ONLY \in BOOLEAN
    /\ perms = {}
    /\ \/ /\ DataProduct = <<>>
          /\ ReducedDatum = {}
          /\ media = {}
          /\ nextPk = 1
       \/ /\ DataProduct = Insert(<<>>, 1, NewRow("t1", "photometry"))
          /\ ReducedDatum = Reduced(1, 1)
          /\ media = {1}
          /\ nextPk = 2

\* the database after NumProducts uploads: any targets and types, nothing featured
InitDbProducts ==
    /\ TARGET_PERMISSIONS_ONLY \in BOOLEAN
    /\ \E t \in [1..NumProducts -> Targets], ty \in [1..NumProducts -> Types] :
          DataProduct = [p \in 1..NumProducts |-> NewRow(t[p], ty[p])]
    /\ \E k \in [1..NumProducts -> 0..MaxData] :
          ReducedDatum = UNION {Reduced(p, k[p]) : p \in 1..NumProducts}
    /\ media = 1..NumProducts
    /\ \E granted \in SUBSET (1..NumProducts) :
          perms = IF TARGET_PERMISSIONS_ONLY THEN {}
                  ELSE UNION {Assigned("g1", p, 3) : p \in granted}
    /\ nextPk = NumProducts + 1

\* the same products before any datum or permission was stored for them
InitDbFeature ==
    /\ TARGET_PERMISSIONS_ONLY = FALSE
    /\ \E t \in [1..NumProducts -> Targets], ty \in [1..NumProducts -> Types] :
          DataProduct = [p \in 1..NumProducts |-> NewRow(t[p], ty[p])]
    /\ ReducedDatum = {}
    /\ media = 1..NumProducts
    /\ perms = {}
    /\ nextPk = NumProducts + 1

InitDbEmpty ==
    /\ TARGET_PERMISSIONS_ONLY = FALSE
    /\ DataProduct = <<>>
    /\ ReducedDatum = {}
    /\ media = {}
    /\ perms = {}
    /\ nextPk = 1

InitUpload ==
    /\ upPc = "idle"
    /\ form = NoForm
    /\ idx = 1
    /\ dp = 0
    /\ exc = "none"
    /\ successful_uploads = <<>>
    /\ messages = <<>>
    /\ upResponse = "none"
    /\ attempts = <<>>
    /\ raised = {}

NoRequest == [user |-> "anonymous", pk |-> 0, before |-> {}]

Requests == 1..NumRequests

InitFeature ==
    /\ featPc = [r \in Requests |-> "idle"]
    /\ featPk = [r \in Requests |-> 0]
    /\ current_featured = [r \in Requests |-> {}]
    /\ overlapped = [r \in Requests |-> FALSE]
    /\ cache = Targets

Names == {"hermes", "tom"}
Keys == {"BASE_URL", "USERNAME", "PASSWORD"}

\* a row of the photometry CSV file, as csv.DictReader reads it
RowSet == [time : {"2459000.5", "2459001.5"}, filter : {"r", "g"},
           magnitude : {"17.1"}, error : {"0.1"}]
RowLists == UNION {[1..n -> RowSet] : n \in 0..MaxRows}

RemoteIds == {"id7", "id8"}
Statuses == {"200", "400", "500"}

NoCall == [op |-> "none", tom_name |-> "tom", data_product_type |-> "image",
           target |-> "t1", rows |-> <<>>]
NoResponse == [count |-> 0, results |-> <<>>]

\* settings.DATA_SHARING: any entries, each with any of the keys
InitShare ==
    /\ DATA_SHARING \in UNION {[D -> SUBSET Keys] : D \in SUBSET Names}
    /\ sharePc = "idle"
    /\ shareCall = NoCall
    /\ data = <<>>
    /\ submit_response = "none"
    /\ target_response = NoResponse
    /\ http = <<>>
    /\ warnings = 0
    /\ shareResult = "none"

\* settings without any sharing destination, and no sharing call
ShareIdle ==
    /\ DATA_SHARING = <<>>
    /\ sharePc = "idle"
    /\ shareCall = NoCall
    /\ data = <<>>
    /\ submit_response = "none"
    /\ target_response = NoResponse
    /\ http = <<>>
    /\ warnings = 0
    /\ shareResult = "none"

InitDelete ==
    /\ delPc = "idle"
    /\ delReq = NoRequest
    /\ delResponse = "none"

\* ------------------------------------------- DataProductUploadView.form_valid
\* the request arrives with a validated form and its list of files
FormValid ==
    /\ upPc = "idle"
    /\ UNCHANGED <<delVars, featVars, shareVars>>
    /\ \E n \in 0..MaxFiles, t \in Targets, ty \in Types, gs \in SUBSET Groups :
          form' = [n |-> n, target |-> t, data_product_type |-> ty, groups |-> gs]
    /\ idx' = 1
    /\ dp' = 0
    /\ exc' = "none"
    /\ successful_uploads' = <<>>
    /\ messages' = <<>>
    /\ upResponse' = "none"
    /\ attempts' = <<>>
    /\ raised' = {}
    /\ upPc' = "loop"
    /\ UNCHANGED dbVars

\* for f in data_product_files: dp = DataProduct(...); dp.save()
SaveDP ==
    /\ upPc = "loop"
    /\ UNCHANGED <<delVars, featVars, shareVars>>
    /\ idx <= form.n
    /\ DataProduct' = Insert(DataProduct, nextPk,
                             [target |-> form.target,
                              data_product_type |-> form.data_product_type,
                              featured |-> FALSE])
    /\ media' = media \cup {nextPk}
    /\ dp' = nextPk
    /\ nextPk' = nextPk + 1
    /\ attempts' = Append(attempts, [file |-> idx, pk |-> nextPk])
    /\ exc' = "none"
    /\ upPc' = "hook"
    /\ UNCHANGED <<TARGET_PERMISSIONS_ONLY, ReducedDatum, perms, form, idx,
                   successful_uploads, messages, upResponse>>
    /\ UNCHANGED raised

\* run_hook('data_product_post_upload', dp): returns or raises
RunHook ==
    /\ upPc = "hook"
    /\ UNCHANGED <<delVars, featVars, shareVars>>
    /\ \E e \in {"none", "InvalidFileFormatException", "Exception"} :
          /\ exc' = e
          /\ raised' = IF e = "none" THEN raised ELSE raised \cup {dp}
          /\ upPc' = IF e = "none" THEN "process" ELSE "except"
    /\ UNCHANGED <<dbVars, form, idx, dp, successful_uploads, messages, upResponse,
                   attempts>>

\* reduced_data = run_data_processor(dp): creates k rows, then returns or raises
RunDataProcessor ==
    /\ upPc = "process"
    /\ UNCHANGED <<delVars, featVars, shareVars>>
    /\ \E k \in 0..MaxData, e \in {"none", "InvalidFileFormatException", "Exception"} :
          /\ ReducedDatum' = ReducedDatum \cup
                 {[data_product |-> dp, n |-> j] : j \in 1..k}
          /\ exc' = e
          /\ raised' = IF e = "none" THEN raised ELSE raised \cup {dp}
          /\ upPc' = IF e = "none" THEN "perm" ELSE "except"
    /\ UNCHANGED <<TARGET_PERMISSIONS_ONLY, DataProduct, media, perms, nextPk, form,
                   idx, dp, successful_uploads, messages, upResponse, attempts>>

\* if not settings.TARGET_PERMISSIONS_ONLY: for group in groups: assign_perm x 3
AssignPerms ==
    /\ upPc = "perm"
    /\ UNCHANGED <<delVars, featVars, shareVars>>
    /\ IF TARGET_PERMISSIONS_ONLY \/ form.groups = {}
       THEN /\ upPc' = "append"
            /\ UNCHANGED <<perms, exc, raised>>
       ELSE \/ /\ perms' = perms \cup UNION {Assigned(g, dp, 3) : g \in form.groups}
               /\ upPc' = "append"
               /\ UNCHANGED <<exc, raised>>
            \/ \E g \in form.groups, j \in 0..2 :
                  /\ perms' = perms \cup Assigned(g, dp, j)
                  /\ exc' = "Exception"
                  /\ raised' = raised \cup {dp}
                  /\ upPc' = "except"
    /\ UNCHANGED <<TARGET_PERMISSIONS_ONLY, DataProduct, ReducedDatum, media, nextPk,
                   form, idx, dp, successful_uploads, messages, upResponse, attempts>>

\* successful_uploads.append(str(dp))
AppendSuccess ==
    /\ upPc = "append"
    /\ UNCHANGED <<delVars, featVars, shareVars>>
    /\ successful_uploads' = Append(successful_uploads, dp)
    /\ idx' = idx + 1
    /\ upPc' = "loop"
    /\ UNCHANGED <<dbVars, form, dp, exc, messages, upResponse, attempts>>
    /\ UNCHANGED raised

\* faulty variant: the handlers leave the ReducedDatum rows of the failed file
CleanupReducedSkipped(pk) == ReducedDatum

\* ReducedDatum.objects.filter(data_product=dp).delete()
CleanupReduced(pk) == ReducedDatum \ ReducedOf(pk)

\* dp.delete()
CleanupProduct(pk) == DeleteRow(DataProduct, pk)

\* the text of messages.error for the handler that caught the exception
ErrorMessage(e, pk) ==
    [level |-> "error",
     text |-> IF e = "InvalidFileFormatException" THEN "File format invalid"
              ELSE "There was a problem processing your file",
     product |-> pk]

\* except InvalidFileFormatException / except Exception: first statement
ExceptDeleteReduced ==
    /\ upPc = "except"
    /\ UNCHANGED <<delVars, featVars, shareVars>>
    /\ ReducedDatum' = CleanupReduced(dp)
    /\ upPc' = "except_dp"
    /\ UNCHANGED <<TARGET_PERMISSIONS_ONLY, DataProduct, media, perms, nextPk>>
    /\ UNCHANGED <<form, idx, dp, exc, successful_uploads, messages, upResponse,
                   attempts>>
    /\ UNCHANGED raised

\* faulty variant: after the handler the loop over the files ends
ExceptDeleteProductBreak ==
    /\ upPc = "except_dp"
    /\ UNCHANGED <<delVars, featVars, shareVars>>
    /\ DataProduct' = DeleteRow(DataProduct, dp)
    /\ messages' = Append(messages, [level |-> "error", text |-> "error", product |-> dp])
    /\ idx' = form.n + 1
    /\ upPc' = "loop"
    /\ UNCHANGED <<TARGET_PERMISSIONS_ONLY, ReducedDatum, media, perms, nextPk, form,
                   dp, exc, successful_uploads, upResponse, attempts, raised>>

\* the handler's dp.delete() and messages.error(...); then the next file
ExceptDeleteProduct ==
    /\ upPc = "except_dp"
    /\ UNCHANGED <<delVars, featVars, shareVars>>
    /\ DataProduct' = CleanupProduct(dp)
    /\ messages' = Append(messages, ErrorMessage(exc, dp))
    /\ idx' = idx + 1
    /\ upPc' = "loop"
    /\ UNCHANGED <<TARGET_PERMISSIONS_ONLY, ReducedDatum, media, perms, nextPk, form,
                   dp, exc, successful_uploads, upResponse, attempts>>
    /\ UNCHANGED raised

\* if successful_uploads: messages.success(...); return redirect(referrer)
UploadReturn ==
    /\ upPc = "loop"
    /\ UNCHANGED <<delVars, featVars, shareVars>>
    /\ idx > form.n
    /\ messages' = IF successful_uploads # <<>>
                   THEN Append(messages, [level |-> "success",
                                          text |-> "Successfully uploaded",
                                          product |-> 0])
                   ELSE messages
    /\ upResponse' = "redirect"
    /\ upPc' = "done"
    /\ UNCHANGED <<dbVars, form, idx, dp, exc, successful_uploads, attempts>>
    /\ UNCHANGED raised

NextUpload ==
    \/ FormValid
    \/ SaveDP
    \/ RunHook
    \/ RunDataProcessor
    \/ AssignPerms
    \/ AppendSuccess
    \/ ExceptDeleteReduced
    \/ ExceptDeleteProduct
    \/ UploadReturn

\* ------------------------------------------------------ DataProductDeleteView
Users == {"anonymous", "member", "outsider"}

\* request.user.is_authenticated
IsAuthenticated(user) == user # "anonymous"

\* user.has_perm(perm, obj) through guardian: "member" belongs to group g1, the
\* other authenticated user to no group, and the anonymous user holds nothing
HasPerm(user, perm, pk) == user = "member" /\ <<"g1", perm, pk>> \in perms

\* DataProductDeleteView.get_required_permissions: None under
\* TARGET_PERMISSIONS_ONLY, else the mixin's list made of permission_required
get_required_permissions ==
    IF TARGET_PERMISSIONS_ONLY THEN {} ELSE {"delete_dataproduct"}

\* guardian's PermissionRequiredMixin.check_permissions: the 40x response, or
\* None when the user holds the permissions get_required_permissions returns
MixinCheckPermissions(user, pk) ==
    IF \A perm \in get_required_permissions : HasPerm(user, perm, pk) THEN "none"
    ELSE IF IsAuthenticated(user) THEN "403" ELSE "login"

\* DataProductDeleteView.check_permissions: False under TARGET_PERMISSIONS_ONLY
check_permissions(user, pk) ==
    IF TARGET_PERMISSIONS_ONLY THEN "False" ELSE MixinCheckPermissions(user, pk)

\* a POST (or DELETE) request for the product pk arrives
DeleteRequest ==
    /\ delPc \in {"idle", "done"}
    /\ \E user \in Users, pk \in Pks :
          delReq' = [user |-> user, pk |-> pk, before |-> ReducedDatum]
    /\ delResponse' = "none"
    /\ delPc' = "dispatch"
    /\ UNCHANGED <<dbVars, upVars, featVars, shareVars>>

\* the mixin's dispatch: a truthy check_permissions is the response, anything
\* else lets the request through to the view's handler
Dispatch ==
    /\ delPc = "dispatch"
    /\ LET response == check_permissions(delReq.user, delReq.pk) IN
          IF response \in {"403", "login"}
          THEN /\ delResponse' = response
               /\ delPc' = "done"
          ELSE /\ delPc' = "delete_reduced"
               /\ UNCHANGED delResponse
    /\ UNCHANGED <<dbVars, upVars, delReq, featVars, shareVars>>

\* faulty variant: the filter on the product is lost, every ReducedDatum is deleted
DeleteViewReducedAll(pk) == {}

\* ReducedDatum.objects.filter(data_product=self.get_object()).delete()
DeleteViewReduced(pk) == ReducedDatum \ ReducedOf(pk)

DeleteReduced ==
    /\ delPc = "delete_reduced"
    /\ ReducedDatum' = DeleteViewReduced(delReq.pk)
    /\ delPc' = "delete_file"
    /\ UNCHANGED <<TARGET_PERMISSIONS_ONLY, DataProduct, media, perms, nextPk,
                   upVars, delReq, delResponse, featVars, shareVars>>

\* self.get_object().data.delete()
DeleteFile ==
    /\ delPc = "delete_file"
    /\ media' = media \ {delReq.pk}
    /\ delPc' = "delete_product"
    /\ UNCHANGED <<TARGET_PERMISSIONS_ONLY, DataProduct, ReducedDatum, perms, nextPk,
                   upVars, delReq, delResponse, featVars, shareVars>>

\* super().delete(request): the row is deleted, redirect to the success url
DeleteProduct ==
    /\ delPc = "delete_product"
    /\ DataProduct' = DeleteRow(DataProduct, delReq.pk)
    /\ delResponse' = "redirect"
    /\ delPc' = "done"
    /\ UNCHANGED <<TARGET_PERMISSIONS_ONLY, ReducedDatum, media, perms, nextPk,
                   upVars, delReq, featVars, shareVars>>

NextDelete ==
    \/ DeleteRequest
    \/ Dispatch
    \/ DeleteReduced
    \/ DeleteFile
    \/ DeleteProduct

\* ----------------------------------------------------- DataProductFeatureView
\* the request is between its first database read and its response
Active(r) == featPc[r] \notin {"idle", "done"}

\* product = DataProduct.objects.get(pk=product_id)
FeatureGet(r) ==
    /\ featPc[r] = "idle"
    /\ \E pk \in Pks : featPk' = [featPk EXCEPT ![r] = pk]
    /\ featPc' = [featPc EXCEPT ![r] = "query"]
    /\ overlapped' = [x \in Requests |->
                        IF x = r THEN \E y \in Requests \ {r} : Active(y)
                        ELSE overlapped[x] \/ Active(x)]
    /\ UNCHANGED <<dbVars, upVars, delVars, current_featured, cache, shareVars>>

\* faulty variant: the filter on the target is lost
CurrentFeaturedAnyTarget(pk) ==
    {q \in Pks : /\ DataProduct[q].featured
                 /\ DataProduct[q].data_product_type = DataProduct[pk].data_product_type}

\* DataProduct.objects.filter(featured=True, data_product_type=..., target=...)
CurrentFeatured(pk) ==
    {q \in Pks : /\ DataProduct[q].featured
                 /\ DataProduct[q].data_product_type = DataProduct[pk].data_product_type
                 /\ DataProduct[q].target = DataProduct[pk].target}

\* the for loop evaluates the queryset
FeatureQuery(r) ==
    /\ featPc[r] = "query"
    /\ current_featured' = [current_featured EXCEPT ![r] = CurrentFeatured(featPk[r])]
    /\ featPc' = [featPc EXCEPT ![r] = "loop"]
    /\ UNCHANGED <<dbVars, upVars, delVars, featPk, overlapped, cache, shareVars>>

\* featured_image.featured = False; featured_image.save(); cache.delete(key)
FeatureUnset(r) ==
    /\ featPc[r] = "loop"
    /\ \E q \in current_featured[r] :
          /\ DataProduct' = [DataProduct EXCEPT ![q].featured = FALSE]
          /\ cache' = cache \ {DataProduct[q].target}
          /\ current_featured' = [current_featured EXCEPT ![r] = @ \ {q}]
    /\ UNCHANGED <<TARGET_PERMISSIONS_ONLY, ReducedDatum, media, perms, nextPk,
                   upVars, delVars, featPc, featPk, overlapped, shareVars>>

\* product.featured = True; product.save(); return redirect(...)
FeatureSet(r) ==
    /\ featPc[r] = "loop"
    /\ current_featured[r] = {}
    /\ DataProduct' = [DataProduct EXCEPT ![featPk[r]].featured = TRUE]
    /\ featPc' = [featPc EXCEPT ![r] = "done"]
    /\ UNCHANGED <<TARGET_PERMISSIONS_ONLY, ReducedDatum, media, perms, nextPk,
                   upVars, delVars, featPk, current_featured, overlapped, cache,
                   shareVars>>

NextFeature ==
    \E r \in Requests :
        \/ FeatureGet(r)
        \/ FeatureQuery(r)
        \/ FeatureUnset(r)
        \/ FeatureSet(r)

\* ------------------------------------------------------- DataProductShareView
\* settings.DATA_SHARING[name][key] does not raise KeyError
Configured(name, key) == name \in DOMAIN DATA_SHARING /\ key \in DATA_SHARING[name]

\* get(): sharing_destination = 'hermes'
sharing_destination == "hermes"

\* a GET request for a product arrives
ShareGet ==
    /\ sharePc = "idle"
    /\ \E ty \in Types, t \in Targets, rows \in RowLists :
          shareCall' = [op |-> "get", tom_name |-> sharing_destination,
                        data_product_type |-> ty, target |-> t, rows |-> rows]
    /\ sharePc' = "get"
    /\ UNCHANGED <<dbVars, upVars, delVars, featVars, DATA_SHARING, data,
                   target_response, http, warnings, shareResult>>
    /\ UNCHANGED submit_response

\* if product.data_product_type == 'photometry': read the CSV rows, then share
GetBranch ==
    /\ sharePc = "get"
    /\ IF shareCall.data_product_type = "photometry"
       THEN IF sharing_destination = "hermes"
            THEN /\ data' = shareCall.rows
                 /\ sharePc' = "submit"
            ELSE /\ sharePc' = "tom_config"
                 /\ UNCHANGED data
       ELSE /\ sharePc' = "redirect"
            /\ UNCHANGED data
    /\ UNCHANGED <<dbVars, upVars, delVars, featVars, DATA_SHARING, shareCall,
                   target_response, http, warnings, shareResult>>
    /\ UNCHANGED submit_response

\* faulty variant: brightness and brightnessError are taken from each other's column
HermesPhotometrySwapped(target_name, photometry_data) ==
    [i \in 1..Len(photometry_data) |->
        [photometryId |-> target_name,
         dateObs |-> photometry_data[i].time,
         band |-> photometry_data[i].filter,
         brightness |-> photometry_data[i].error,
         brightnessError |-> photometry_data[i].magnitude,
         brightnessUnit |-> "AB mag"]]

\* submit_to_stream: the TOM Toolkit photometry rows as HERMES photometry
HermesPhotometry(target_name, photometry_data) ==
    [i \in 1..Len(photometry_data) |->
        [photometryId |-> target_name,
         dateObs |-> photometry_data[i].time,
         band |-> photometry_data[i].filter,
         brightness |-> photometry_data[i].magnitude,
         brightnessError |-> photometry_data[i].error,
         brightnessUnit |-> "AB mag"]]

\* requests.post(url=submit_url, json=alert, headers=headers)
SubmitRequest(stream_name, target_name, photometry_data) ==
    [method |-> "POST", base |-> stream_name, path |-> "submit/",
     body |-> HermesPhotometry(target_name, photometry_data)]

\* faulty variant: a 500 response makes submit_to_stream send the request again
SubmitPostsRetry(stream_name, target_name, photometry_data, status) ==
    IF status = "500"
    THEN <<SubmitRequest(stream_name, target_name, photometry_data),
           SubmitRequest(stream_name, target_name, photometry_data)>>
    ELSE <<SubmitRequest(stream_name, target_name, photometry_data)>>

\* the requests submit_to_stream sends, whatever the response's status
SubmitPosts(stream_name, target_name, photometry_data, status) ==
    <<SubmitRequest(stream_name, target_name, photometry_data)>>

\* submit_to_stream(stream_name, target_name, photometry_data)
SubmitToStream ==
    /\ sharePc = "submit"
    /\ IF ~Configured(shareCall.tom_name, "BASE_URL")
       THEN /\ shareResult' = "KeyError"
            /\ sharePc' = "done"
            /\ UNCHANGED <<http, submit_response>>
       ELSE /\ \E status \in Statuses :
                  /\ http' = http \o SubmitPosts(shareCall.tom_name, shareCall.target,
                                                 data, status)
                  /\ submit_response' = status
            /\ sharePc' = "redirect"
            /\ UNCHANGED shareResult
    /\ UNCHANGED <<dbVars, upVars, delVars, featVars, DATA_SHARING, shareCall, data,
                   target_response, warnings>>

\* return redirect(reverse('tom_targets:detail', ...))
GetReturn ==
    /\ sharePc = "redirect"
    /\ shareResult' = "redirect"
    /\ sharePc' = "done"
    /\ UNCHANGED <<dbVars, upVars, delVars, featVars, DATA_SHARING, shareCall, data,
                   target_response, http, warnings>>
    /\ UNCHANGED submit_response

\* a call of share_with_tom(tom_name, product)
ShareWithTom ==
    /\ sharePc = "idle"
    /\ \E name \in Names \cup {"other"}, ty \in Types, t \in Targets :
          shareCall' = [op |-> "share_with_tom", tom_name |-> name,
                        data_product_type |-> ty, target |-> t, rows |-> <<>>]
    /\ sharePc' = "tom_config"
    /\ UNCHANGED <<dbVars, upVars, delVars, featVars, DATA_SHARING, data,
                   target_response, http, warnings, shareResult>>
    /\ UNCHANGED submit_response

\* faulty variant: only BASE_URL is read inside the try block
RequiredKeysBaseUrlOnly == {"BASE_URL"}

\* the keys the try block reads
RequiredKeys == {"BASE_URL", "USERNAME", "PASSWORD"}

\* try: settings.DATA_SHARING[tom_name][...] except KeyError: raise ImproperlyConfigured
TomConfig ==
    /\ sharePc = "tom_config"
    /\ IF \A key \in RequiredKeys : Configured(shareCall.tom_name, key)
       THEN /\ sharePc' = "tom_get"
            /\ UNCHANGED shareResult
       ELSE /\ shareResult' = "ImproperlyConfigured"
            /\ sharePc' = "done"
    /\ UNCHANGED <<dbVars, upVars, delVars, featVars, DATA_SHARING, shareCall, data,
                   target_response, http, warnings>>
    /\ UNCHANGED submit_response

\* response = requests.get(targets_url, auth=auth, params=target_params)
TomGet ==
    /\ sharePc = "tom_get"
    /\ http' = Append(http, [method |-> "GET", base |-> shareCall.tom_name,
                             path |-> "api/targets/", body |-> shareCall.target])
    /\ \E count \in 0..MaxCount, results \in UNION {[1..n -> RemoteIds] : n \in 0..MaxCount} :
          /\ Len(results) = count
          /\ target_response' = [count |-> count, results |-> results]
    /\ sharePc' = "tom_branch"
    /\ UNCHANGED <<dbVars, upVars, delVars, featVars, DATA_SHARING, shareCall, data,
                   warnings, shareResult>>
    /\ UNCHANGED submit_response

\* faulty variant: any count but 0 takes the first result
TargetFoundAtLeastOne(response) == response.count >= 1

\* if target_response['count'] == 1: the POST follows
TargetFound(response) == response.count = 1

\* count == 1: on to the POST; count == 0 or count > 1: logger.warning and return
TomBranch ==
    /\ sharePc = "tom_branch"
    /\ IF TargetFound(target_response)
       THEN /\ sharePc' = "tom_post"
            /\ UNCHANGED <<warnings, shareResult>>
       ELSE /\ warnings' = warnings + 1
            /\ shareResult' = "return"
            /\ sharePc' = "done"
    /\ UNCHANGED <<dbVars, upVars, delVars, featVars, DATA_SHARING, shareCall, data,
                   target_response, http>>
    /\ UNCHANGED submit_response

\* requests.post(data_products_url, data=data, files=files, headers=headers, auth=auth)
TomPost ==
    /\ sharePc = "tom_post"
    /\ http' = Append(http, [method |-> "POST", base |-> shareCall.tom_name,
                             path |-> "api/dataproducts/",
                             body |-> [target |-> target_response.results[1],
                                       data_product_type |-> shareCall.data_product_type]])
    /\ IF shareCall.op = "get"
       THEN /\ sharePc' = "redirect"
            /\ UNCHANGED shareResult
       ELSE /\ shareResult' = "return"
            /\ sharePc' = "done"
    /\ UNCHANGED <<dbVars, upVars, delVars, featVars, DATA_SHARING, shareCall, data,
                   target_response, warnings>>
    /\ UNCHANGED submit_response

NextShare ==
    \/ ShareGet
    \/ GetBranch
    \/ SubmitToStream
    \/ GetReturn
    \/ ShareWithTom
    \/ TomConfig
    \/ TomGet
    \/ TomBranch
    \/ TomPost

\* ---------------------------------------------------- claims on the upload view
AttemptedPks == {attempts[i].pk : i \in DOMAIN attempts}

\* how often x occurs in the sequence seq
Occurrences(seq, x) == Cardinality({i \in DOMAIN seq : seq[i] = x})

\* the error messages that name product pk
ErrorsFor(pk) ==
    Cardinality({i \in DOMAIN messages :
                    messages[i].level = "error" /\ messages[i].product = pk})

SuccessMessages == Cardinality({i \in DOMAIN messages : messages[i].level = "success"})

\* C1: when form_valid has returned, the DataProduct of every file whose hook,
\* data processing or permission assignment raised is gone from the database
\* together with every ReducedDatum attached to it, and the DataProduct of every
\* file processed without an exception is stored.
C1_FailedUploadsCleanedUp ==
    upPc = "done" =>
        \A pk \in AttemptedPks :
            IF pk \in raised
            THEN pk \notin Pks /\ ReducedOf(pk) = {}
            ELSE pk \in Pks

\* C1 witness: a request returned in which the first file was stored with a
\* datum and the second file raised
C1_Witness ==
    /\ upPc = "done"
    /\ Len(attempts) = 2
    /\ attempts[1].pk \notin raised
    /\ ReducedOf(attempts[1].pk) # {}
    /\ attempts[2].pk \in raised

\* C9: every uploaded file is attempted exactly once, in upload order; when
\* form_valid has returned every file was attempted, each is either in the
\* success list once or has exactly one error message, never both and never
\* neither, the success message was emitted exactly when a file succeeded, and
\* the response is the redirect.
C9_EveryFileAttemptedOnce ==
    /\ \A i \in DOMAIN attempts : attempts[i].file = i
    /\ upPc = "done" =>
          /\ Len(attempts) = form.n
          /\ \A pk \in AttemptedPks :
                Occurrences(successful_uploads, pk) + ErrorsFor(pk) = 1
          /\ \A pk \in AttemptedPks :
                (pk \in raised) = (ErrorsFor(pk) = 1)
          /\ SuccessMessages = (IF successful_uploads # <<>> THEN 1 ELSE 0)
          /\ upResponse = "redirect"

\* C9 witness: the first of two files failed and the second one succeeded
C9_Witness ==
    /\ upPc = "done"
    /\ form.n = 2
    /\ ErrorsFor(attempts[1].pk) = 1
    /\ successful_uploads = <<attempts[2].pk>>
    /\ SuccessMessages = 1

\* ---------------------------------------------------- claims on the delete view
\* the view's delete() is running or has returned its redirect
Deleting ==
    \/ delPc \in {"delete_reduced", "delete_file", "delete_product"}
    \/ delPc = "done" /\ delResponse = "redirect"

\* the rows of rds that belong to another product than pk
OthersOf(rds, pk) == {rd \in rds : rd.data_product # pk}

\* C6: for both values of TARGET_PERMISSIONS_ONLY, a request of an unauthenticated
\* user never leads to the deletion of the DataProduct, its file and its
\* ReducedDatum rows: a request that ended with the product deleted was an
\* authenticated user's.
C6_DeleteRequiresAuthentication ==
    (delPc = "done" /\ delResponse = "redirect" /\ delReq.pk \notin Pks
        /\ delReq.pk \notin media)
        => IsAuthenticated(delReq.user)

\* C7: at every point of delete() every ReducedDatum refers to a stored
\* DataProduct and the rows of the other products are those of before the
\* request; when delete() has returned, the DataProduct and its ReducedDatum
\* rows are gone.
C7_ReducedDeletedBeforeProduct ==
    /\ \A rd \in ReducedDatum : rd.data_product \in Pks
    /\ Deleting =>
          OthersOf(ReducedDatum, delReq.pk) = OthersOf(delReq.before, delReq.pk)
    /\ (delPc = "done" /\ delResponse = "redirect") =>
          /\ delReq.pk \notin Pks
          /\ ReducedOf(delReq.pk) = {}

\* C7 witness: a product that had a ReducedDatum was deleted while another
\* product keeps its own
C7_Witness ==
    /\ delPc = "done"
    /\ delResponse = "redirect"
    /\ delReq.before \ OthersOf(delReq.before, delReq.pk) # {}
    /\ ReducedDatum # {}

\* --------------------------------------------------- claims on the feature view
SameKind(p, q) ==
    /\ DataProduct[p].target = DataProduct[q].target
    /\ DataProduct[p].data_product_type = DataProduct[q].data_product_type

\* request r returns its redirect in this step
Completes(r) == featPc[r] # "done" /\ featPc'[r] = "done"

C10_AtMostOneFeatured ==
    (\A r \in Requests : featPc[r] = "done") =>
        \A p \in Pks, q \in Pks :
            (DataProduct[p].featured /\ DataProduct[q].featured /\ SameKind(p, q))
                => p = q

\* ----------------------------------------------------- claims on the share view
\* the requests sent so far with this method to this path
Sent(method, path) ==
    {i \in DOMAIN http : http[i].method = method /\ http[i].path = path}

FullyConfigured(name) ==
    \A key \in {"BASE_URL", "USERNAME", "PASSWORD"} : Configured(name, key)

\* C2: in share_with_tom a POST to api/dataproducts/ is sent only when the
\* lookup reported a count of exactly 1, and then once, with the id of the
\* single result; with a count of 0 or above 1 the method has logged one
\* warning and returned normally, having sent no POST.
C2_PostOnlyForSingleTarget ==
    shareCall.op = "share_with_tom" =>
        /\ Sent("POST", "api/dataproducts/") # {} => target_response.count = 1
        /\ (sharePc = "done" /\ Sent("GET", "api/targets/") # {}) =>
              /\ shareResult = "return"
              /\ IF target_response.count = 1
                 THEN /\ Cardinality(Sent("POST", "api/dataproducts/")) = 1
                      /\ \A i \in Sent("POST", "api/dataproducts/") :
                            http[i].body.target = target_response.results[1]
                      /\ warnings = 0
                 ELSE /\ Sent("POST", "api/dataproducts/") = {}
                      /\ warnings = 1

\* C2 witness: the destination reported two targets of the name and the
\* method returned after its warning
C2_Witness ==
    /\ shareCall.op = "share_with_tom"
    /\ sharePc = "done"
    /\ target_response.count = 2
    /\ warnings = 1
    /\ shareResult = "return"

\* C3: when DATA_SHARING has no entry for tom_name, or the entry lacks
\* BASE_URL, USERNAME or PASSWORD, share_with_tom sends no HTTP request at any
\* point and ends by raising ImproperlyConfigured.
C3_MisconfigurationRaisesFirst ==
    (shareCall.op = "share_with_tom" /\ ~FullyConfigured(shareCall.tom_name)) =>
        /\ http = <<>>
        /\ sharePc = "done" => shareResult = "ImproperlyConfigured"

\* C3 witness: the entry exists and lacks only PASSWORD, and the method raised
C3_Witness ==
    /\ shareCall.op = "share_with_tom"
    /\ sharePc = "done"
    /\ shareCall.tom_name \in DOMAIN DATA_SHARING
    /\ DATA_SHARING[shareCall.tom_name] = {"BASE_URL", "USERNAME"}
    /\ shareResult = "ImproperlyConfigured"

\* C4: a GET request sends at most one request; for a photometry product, with
\* the base URL of the stream configured, it ends with the redirect after
\* exactly one POST to that base URL's submit/, whatever the status; for any
\* other type it sends nothing at any point and ends with the redirect.
C4_OnePostNoRetry ==
    shareCall.op = "get" =>
        /\ Len(http) <= 1
        /\ shareCall.data_product_type # "photometry" => http = <<>>
        /\ sharePc = "done" =>
              IF shareCall.data_product_type = "photometry"
              THEN Configured(sharing_destination, "BASE_URL") =>
                      /\ shareResult = "redirect"
                      /\ Len(http) = 1
                      /\ http[1].method = "POST"
                      /\ http[1].base = sharing_destination
                      /\ http[1].path = "submit/"
              ELSE shareResult = "redirect"

\* C4 witness: the POST for a photometry product was answered with status 500
\* and the request ended with the redirect
C4_Witness ==
    /\ shareCall.op = "get"
    /\ sharePc = "done"
    /\ shareCall.data_product_type = "photometry"
    /\ submit_response = "500"
    /\ shareResult = "redirect"

\* C8: the photometry_data of every POST to submit/ has one entry per row of the
\* product's file, in the rows' order, with the target name, the row's time,
\* filter, magnitude and error, and the unit 'AB mag'; the POST is sent for an
\* empty list of rows too.
C8_PayloadMapsRows ==
    /\ \A i \in Sent("POST", "submit/") :
          /\ Len(http[i].body) = Len(shareCall.rows)
          /\ \A k \in 1..Len(shareCall.rows) :
                /\ http[i].body[k].photometryId = shareCall.target
                /\ http[i].body[k].dateObs = shareCall.rows[k].time
                /\ http[i].body[k].band = shareCall.rows[k].filter
                /\ http[i].body[k].brightness = shareCall.rows[k].magnitude
                /\ http[i].body[k].brightnessError = shareCall.rows[k].error
                /\ http[i].body[k].brightnessUnit = "AB mag"
    /\ (sharePc \in {"redirect", "done"} /\ shareCall.op = "get"
          /\ shareCall.data_product_type = "photometry"
          /\ Configured(sharing_destination, "BASE_URL")) =>
             Sent("POST", "submit/") # {}

\* C8 witness: a file of two different rows was posted
C8_Witness ==
    /\ sharePc = "done"
    /\ Len(shareCall.rows) = 2
    /\ shareCall.rows[1] # shareCall.rows[2]
    /\ Sent("POST", "submit/") # {}

\* ------------------------------------------------------------ specifications
\* one upload request on a database that is empty or holds one earlier upload
InitSpecUpload == InitDbUpload /\ InitUpload /\ InitDelete /\ InitFeature /\ ShareIdle

SpecUpload == InitSpecUpload /\ [][NextUpload]_vars

\* delete requests, one after the other, on a database of NumProducts products
InitSpecDelete == InitDbProducts /\ InitUpload /\ InitDelete /\ InitFeature /\ ShareIdle

SpecDelete == InitSpecDelete /\ [][NextDelete]_vars

\* NumRequests feature requests, interleaved statement by statement
InitSpecFeature == InitDbFeature /\ InitUpload /\ InitDelete /\ InitFeature /\ ShareIdle

SpecFeature == InitSpecFeature /\ [][NextFeature]_vars

\* one GET request to the share view, or one call of share_with_tom
InitSpecShare == InitDbEmpty /\ InitUpload /\ InitDelete /\ InitFeature /\ InitShare

SpecShare == InitSpecShare /\ [][NextShare]_vars

====
